---- MODULE Spec2Model ----
(***************************************************************************)
(* Digital voting front-end: the record access layer (supabaseService),    *)
(* the session layer (AuthContext) and the voter dashboard, modelled over  *)
(* the external store (tables votes, profiles) and identity provider.      *)
(*                                                                         *)
(* A nullable value of the source (T | null, T | undefined) is None or     *)
(* Some(x).  A string whose characters matter (phone, email, Aadhaar and   *)
(* voter id numbers) is a sequence of one-character strings.               *)
(***************************************************************************)
EXTENDS Integers, Sequences, FiniteSets, Bags, TLC

None == <<>>
Some(x) == <<x>>
IsSome(o) == o # None
Get(o) == o[1]

\* ---------------------------------------------------------------- bounds
\* number of castVote invocations a behaviour may hold
MaxCalls == 3
\* number of asynchronous session-layer operations in flight at once
MaxInFlight == 2
\* number of times the dashboard's vote button is clicked in a behaviour
MaxVotes == 1

\* ---------------------------------------------------------------- inputs
\* profile ids (identity-provider user ids) with a row in profiles
Voters == {"v1", "v2"}
\* rows of the candidates table
Candidates == {"c1"}
\* rows of the constituencies table: id -> name
ConstituencyName == [k \in {"k1"} |-> "North"]
Constituencies == DOMAIN ConstituencyName
\* candidate ids a caller may pass: "cX" is no row of candidates
CandidateInputs == {"c1", "cX"}
ConstituencyInputs == {"k1"}
\* profile ids a caller may pass: "vX" has no row in profiles
VoterInputs == Voters \cup {"vX"}
\* constituency names a caller may pass
NameInputs == {"North", "Nowhere"}
\* column values a caller may pass to updateUserProfile
UpdatesInputs == { [voter_id |-> Some(<<"A","B","C","1","2","3","4","5","6","7">>)],
                   [has_voted |-> TRUE] }
CallIds == 1..MaxCalls

Digits == {"0", "1", "2", "3", "4", "5", "6", "7", "8", "9"}
Uppers == {"A", "B", "C", "D", "E", "F", "G", "H", "I", "J", "K", "L", "M",
           "N", "O", "P", "Q", "R", "S", "T", "U", "V", "W", "X", "Y", "Z"}

\* phone numbers typed by the user
PhoneInputs ==
    { <<"9","8","7","6","5","4","3","2","1","0">>,
      <<"9","8","7","6","5","4","3","2","1">>,
      <<"9","8","7","6","5","4","3","2","1","0","0">>,
      <<"9","8","7","6","5","a","3","2","1","0">>,
      <<>> }
\* email addresses typed by the user
EmailInputs ==
    { <<"a","@","b">>, <<"a","b">>, <<>> }
\* one-time codes typed by the user
OtpInputs == {"123456"}
\* identity numbers typed by the user, with the id type chosen
IdInputs ==
    { <<"1","2","3","4","5","6","7","8","9","0","1","2">>,
      <<"1","2","3","4","5">>,
      <<"1","2","3","4","5","6","7","8","9","0","1","2","3">>,
      <<"1","2","3","4","5","6","7","8","9","0","1","x">>,
      <<"A","B","C","1","2","3","4","5","6","7">>,
      <<"A","B","1","2","3","4","5","6","7">>,
      <<"a","b","c","1","2","3","4","5","6","7">>,
      <<"A","B","C","D","1","2","3","4","5","6">>,
      <<"A","B","C","1","2","3","4","5","6","7","8">> }
IdTypes == {"aadhaar", "voterId"}
UsernameInputs == {"admin", "Admin"}
PasswordInputs == {"password", ""}

VARIABLES
    votes,            \* table votes: set of rows
    profiles,         \* table profiles: id -> row
    calls,            \* castVote invocations: call id -> activation record
    providerSession,  \* the identity provider's current session, or None
    otpIssued,        \* identifiers the provider has sent a code to
    user,             \* AuthProvider state: user
    userOid,          \* identity of the object held in user (0: null)
    supabaseUser,     \* AuthProvider state: supabaseUser
    session,          \* AuthProvider state: session
    pendingPhone,     \* AuthProvider state: pendingPhone
    pendingEmail,     \* AuthProvider state: pendingEmail
    ops,              \* session-layer operations awaiting a response
    ret,              \* what the last step returned to its caller, or None
    sent,             \* the requests the last step sent to the provider or the store
    dash,             \* the mounted VoterDashboard's state, or None
    flow,             \* the VoterLogin page's state
    hist              \* history: what has happened so far (not program state)

storeVars == <<votes, profiles>>
authVars == <<providerSession, otpIssued, user, userOid, supabaseUser, session,
              pendingPhone, pendingEmail, ops>>
outVars == <<ret, sent>>
vars == <<votes, profiles, calls, providerSession, otpIssued, user, userOid,
          supabaseUser, session, pendingPhone, pendingEmail, ops, ret, sent, dash, flow, hist>>

\* A step that returns nothing to a caller and sends no request.
Quiet == ret' = None /\ sent' = {}

\* ------------------------------------------------------- the votes table
\* votes.voter_id references profiles.id one-to-one: the store holds a
\* unique constraint on voter_id.
votes_voter_id_unique(row) ==
    \A r \in votes : r.voter_id # row.voter_id

\* The foreign keys of a votes row.
votes_fkeys(row) ==
    /\ row.candidate_id \in Candidates
    /\ row.constituency_id \in Constituencies
    /\ row.voter_id \in DOMAIN profiles

\* The answers of a votes table without the unique constraint on voter_id.
InsertVoteAnswers_noUnique(row) ==
    IF ~votes_fkeys(row) THEN {"fkey_violation"}
    ELSE {"ok", "request_failed"}

\* What the store answers to an insert into votes: "ok", or the error.
InsertVoteAnswers(row) ==
    IF ~votes_voter_id_unique(row) THEN {"unique_violation"}
    ELSE IF ~votes_fkeys(row) THEN {"fkey_violation"}
    ELSE {"ok", "request_failed"}

\* select('*').eq('voter_id', v).maybeSingle(): the row, null when there
\* is none, an error when there are several or the request fails.
SelectVoteAnswers(v) ==
    LET rows == {r \in votes : r.voter_id = v}
    IN  IF Cardinality(rows) > 1 THEN {[error |-> TRUE, data |-> None]}
        ELSE {[error |-> TRUE, data |-> None],
              [error |-> FALSE,
               data |-> IF rows = {} THEN None ELSE Some(CHOOSE r \in rows : TRUE)]}

\* ---------------------------------------------------- the profiles table
ProfileRow(id, name, phone, constituency_id) ==
    [id |-> id, name |-> name, phone |-> phone, aadhaar_number |-> None,
     voter_id |-> None, constituency_id |-> constituency_id, has_voted |-> FALSE]

\* The rows profiles may hold for a voter before the first operation.
ProfileInputs(v) ==
    { ProfileRow(v, Some("Asha"), Some("+91"), Some("k1")),
      ProfileRow(v, None, None, None) }

\* update(updates).eq('id', userId) on profiles
UpdateProfile(userId, updates) ==
    [p \in DOMAIN profiles |->
        IF p = userId
        THEN [f \in DOMAIN profiles[p] |->
                 IF f \in DOMAIN updates THEN updates[f] ELSE profiles[p][f]]
        ELSE profiles[p]]

\* select('*, constituencies(*)').eq('id', userId).single(), as getUserProfile
\* returns it: the row joined with its constituency, or null on any error
\* (a failed request, no row).
getUserProfile(userId) ==
    {None} \cup
    { Some([f \in DOMAIN profiles[p] \cup {"constituencies"} |->
              IF f = "constituencies"
              THEN IF IsSome(profiles[p].constituency_id)
                   THEN Some([id |-> Get(profiles[p].constituency_id),
                              name |-> ConstituencyName[Get(profiles[p].constituency_id)]])
                   ELSE None
              ELSE profiles[p][f]]) : p \in DOMAIN profiles \cap {userId} }

\* What the store answers to a request: its data, or an error (the request
\* failed, or single() found no row).
StoreAnswers == {"ok", "error"}

\* getUserProfile(userId) with the store's answer: the value returned and the
\* notification shown ("none": no toast call on that path).
getUserProfile_returns(userId, ans) ==
    IF ans = "error" \/ userId \notin DOMAIN profiles
    THEN [val |-> None, toast |-> "none"]
    ELSE [val |-> CHOOSE r \in getUserProfile(userId) : r # None, toast |-> "none"]

\* ------------------------------------------------------------- castVote
IdleCall == [pc |-> "idle"]

Returned(c) == calls[c].pc = "done"
InProgress(c) == calls[c].pc \in {"select", "insert", "update"}
VoteRows(v) == {r \in votes : r.voter_id = v}

\* castVote returns val; error is the error its catch block caught, if any.
Return(c, val, toast, error) ==
    calls' = [calls EXCEPT ![c] =
                 [@ EXCEPT !.pc = "done", !.ret = val, !.toast = toast, !.error = error]]

\* A caller invokes castVote(voterId, candidateId, constituencyId).  History
\* kept with the call: after, the calls that had returned when it started,
\* and wrote, the tables it has written.
castVote_call(c, voterId, candidateId, constituencyId) ==
    /\ calls[c].pc = "idle"
    /\ \A d \in CallIds : d < c => calls[d].pc # "idle"
    /\ calls' = [calls EXCEPT ![c] =
           [pc |-> "select", voterId |-> voterId, candidateId |-> candidateId,
            constituencyId |-> constituencyId, ret |-> FALSE, toast |-> "none",
            error |-> "none",
            after |-> {d \in CallIds : Returned(d)},
            wrote |-> {}]]
    /\ UNCHANGED storeVars

\* The existence check with its already-voted branch reporting success.
castVote_select_returnsTrue(c) ==
    /\ calls[c].pc = "select"
    /\ \E ans \in SelectVoteAnswers(calls[c].voterId) :
          IF ans.error THEN Return(c, FALSE, "Failed to cast vote. Please try again.", "select_failed")
          ELSE IF IsSome(ans.data)
          THEN Return(c, TRUE, "You have already cast your vote", "none")
          ELSE calls' = [calls EXCEPT ![c].pc = "insert"]
    /\ UNCHANGED storeVars

\* First, check if the user has already voted.
castVote_select(c) ==
    /\ calls[c].pc = "select"
    /\ \E ans \in SelectVoteAnswers(calls[c].voterId) :
          IF ans.error THEN Return(c, FALSE, "Failed to cast vote. Please try again.", "select_failed")
          ELSE IF IsSome(ans.data)
          THEN Return(c, FALSE, "You have already cast your vote", "none")
          ELSE calls' = [calls EXCEPT ![c].pc = "insert"]
    /\ UNCHANGED storeVars

\* The insert without its `if (error) throw error`.
castVote_insert_ignoresError(c) ==
    /\ calls[c].pc = "insert"
    /\ LET row == [id |-> c, voter_id |-> calls[c].voterId,
                   candidate_id |-> calls[c].candidateId,
                   constituency_id |-> calls[c].constituencyId]
       IN \E ans \in InsertVoteAnswers(row) :
             IF ans = "ok"
             THEN /\ votes' = votes \cup {row}
                  /\ calls' = [calls EXCEPT ![c].pc = "update",
                                            ![c].wrote = @ \cup {"votes"}]
             ELSE /\ votes' = votes
                  /\ calls' = [calls EXCEPT ![c].pc = "update"]
    /\ UNCHANGED profiles

\* Cast vote: insert the row.
castVote_insert(c) ==
    /\ calls[c].pc = "insert"
    /\ LET row == [id |-> c, voter_id |-> calls[c].voterId,
                   candidate_id |-> calls[c].candidateId,
                   constituency_id |-> calls[c].constituencyId]
       IN \E ans \in InsertVoteAnswers(row) :
             IF ans = "ok"
             THEN /\ votes' = votes \cup {row}
                  /\ calls' = [calls EXCEPT ![c].pc = "update",
                                            ![c].wrote = @ \cup {"votes"}]
             ELSE /\ votes' = votes
                  /\ Return(c, FALSE, "Failed to cast vote. Please try again.", ans)
    /\ UNCHANGED profiles

\* Update the voter's has_voted status.
castVote_update(c) ==
    /\ calls[c].pc = "update"
    /\ \E ok \in BOOLEAN :
          IF ok
          THEN /\ profiles' = UpdateProfile(calls[c].voterId, [has_voted |-> TRUE])
               /\ calls' = [calls EXCEPT ![c] =
                      [@ EXCEPT !.pc = "done", !.ret = TRUE,
                                !.wrote = @ \cup {"profiles"}]]
          ELSE /\ profiles' = profiles
               /\ Return(c, FALSE, "Failed to cast vote. Please try again.", "update_failed")
    /\ UNCHANGED votes

\* One step of a castVote in progress.
castVote_step(c) ==
    castVote_select(c) \/ castVote_insert(c) \/ castVote_update(c)

\* castVote invoked by a caller other than the dashboard.
castVote(c, voterId, candidateId, constituencyId) ==
    /\ castVote_call(c, voterId, candidateId, constituencyId)
    /\ Quiet
    /\ UNCHANGED <<authVars, dash, flow, hist>>

castVote_await(c) ==
    /\ castVote_step(c)
    /\ Quiet
    /\ UNCHANGED <<authVars, dash, flow, hist>>

\* ------------------------------------------------------ the session layer
\* A default other than the empty string for a null column.
OrEmpty_placeholder(o) == IF o = None THEN "unknown" ELSE Get(o)

\* x || '' on a string | null
OrEmpty(o) == IF o = None THEN "" ELSE Get(o)
\* x || undefined on a string | null whose characters are modelled
OrUndefined(o) == IF o = None \/ Get(o) = <<>> THEN None ELSE o

AdminUser == [id |-> "admin-1", username |-> "admin", name |-> "Election Officer",
              role |-> "admin"]

\* Check if user is admin
isAdmin(u) == u # None /\ "role" \in DOMAIN Get(u) /\ Get(u).role = "admin"

\* A voter test that does not look at the role marker.
isVoter_anyUser(u) == u # None

\* Check if user is voter
isVoter(u) == u # None /\ "role" \notin DOMAIN Get(u)

\* Convert to our VoterType format
VoterOf(profile) ==
    [id |-> profile.id,
     phone |-> OrEmpty(profile.phone),
     name |-> OrEmpty(profile.name),
     aadhaarNumber |-> OrUndefined(profile.aadhaar_number),
     voterId |-> OrUndefined(profile.voter_id),
     constituency |-> IF profile.constituencies = None THEN ""
                      ELSE Get(profile.constituencies).name,
     hasVoted |-> profile.has_voted]

\* Matching of a pattern without its closing anchor $.
RECURSIVE RegexMatch_unanchored(_, _, _, _)
RegexMatch_unanchored(re, str, i, k) ==
    IF i > Len(re) THEN TRUE
    ELSE /\ k + re[i].n - 1 <= Len(str)
         /\ \A j \in k..(k + re[i].n - 1) : str[j] \in re[i].class
         /\ RegexMatch_unanchored(re, str, i + 1, k + re[i].n)

\* A regular expression ^a1{n1}a2{n2}...$ is the sequence of its atoms,
\* each a character class and a repetition count.
RECURSIVE RegexMatch(_, _, _, _)
RegexMatch(re, str, i, k) ==
    IF i > Len(re) THEN k = Len(str) + 1
    ELSE /\ k + re[i].n - 1 <= Len(str)
         /\ \A j \in k..(k + re[i].n - 1) : str[j] \in re[i].class
         /\ RegexMatch(re, str, i + 1, k + re[i].n)
RegexTest(re, str) == RegexMatch(re, str, 1, 1)

\* /^\d{10}$/
PhoneRegex == << [class |-> Digits, n |-> 10] >>
\* /^\d{12}$/
AadhaarRegex == << [class |-> Digits, n |-> 12] >>
\* The voter id pattern with a two-letter prefix.
VoterIdRegex_twoLetters == << [class |-> Uppers, n |-> 2], [class |-> Digits, n |-> 7] >>

\* /^[A-Z]{3}\d{7}$/
VoterIdRegex == << [class |-> Uppers, n |-> 3], [class |-> Digits, n |-> 7] >>

\* email.includes('@')
IncludesAt(email) == \E i \in 1..Len(email) : email[i] = "@"

\* The identity the provider holds for an identifier, and its session.
SessionOf(uid) == [user |-> [id |-> uid]]
IdentityOf(identifier) == "v1"

\* ops is the bag of the operations awaiting a response, each with the values
\* its closure captured.
HasFreeSlot == BagCardinality(ops) < MaxInFlight
Start(a) == ops' = ops (+) SetToBag({a})
Finish(a) == ops' = ops (-) SetToBag({a})
Continue(a, b) == ops' = (ops (-) SetToBag({a})) (+) SetToBag({b})

\* Object identities held by the state or captured by a closure in flight.
\* Identities of the user objects captured by a closure in flight; a new
\* object takes the least identity no closure holds.
HeldOids == {a.userOid : a \in {b \in BagToSet(ops) : "userOid" \in DOMAIN b}}
FreshOid == CHOOSE n \in 1..(MaxInFlight + 1) : n \notin HeldOids /\ \A m \in 1..(n - 1) : m \in HeldOids

Returns(op, val, toast) ==
    ret' = Some([op |-> op, val |-> val, toast |-> toast])

FetchActivation(userId) == [op |-> "fetchUserProfile", pc |-> "request", userId |-> userId]

\* supabase.auth.getSession().then(...)
getSession_then(a) ==
    /\ a.op = "getSession"
    /\ session' = providerSession
    /\ supabaseUser' = IF providerSession = None THEN None ELSE Some(Get(providerSession).user)
    /\ IF providerSession # None
       THEN Continue(a, FetchActivation(Get(providerSession).user.id))
       ELSE Finish(a)
    /\ Quiet
    /\ UNCHANGED <<storeVars, calls, dash, flow, hist, providerSession, otpIssued, user, userOid,
                   pendingPhone, pendingEmail>>

\* The provider notifies the subscriber of its current session (initial
\* session, token refreshed): the onAuthStateChange callback.
onAuthStateChange ==
    /\ providerSession = None \/ HasFreeSlot
    /\ session' = providerSession
    /\ supabaseUser' = IF providerSession = None THEN None ELSE Some(Get(providerSession).user)
    /\ IF providerSession # None
       THEN /\ Start(FetchActivation(Get(providerSession).user.id))
            /\ UNCHANGED <<user, userOid>>
       ELSE /\ user' = None /\ userOid' = 0
            /\ UNCHANGED ops
    /\ Quiet
    /\ UNCHANGED <<storeVars, calls, dash, flow, hist, providerSession, otpIssued, pendingPhone, pendingEmail>>

\* fetchUserProfile: getUserProfile's request reaches the store.
fetchUserProfile_request(a) ==
    /\ a.op = "fetchUserProfile" /\ a.pc = "request"
    /\ \E profile \in getUserProfile(a.userId) :
          Continue(a, [op |-> "fetchUserProfile", pc |-> "response",
                       userId |-> a.userId, profile |-> profile])
    /\ Quiet
    /\ UNCHANGED <<storeVars, calls, dash, flow, hist, providerSession, otpIssued, user, userOid,
                   supabaseUser, session, pendingPhone, pendingEmail>>

\* fetchUserProfile: the profile arrives and the user is set from it.
fetchUserProfile_response(a) ==
    /\ a.op = "fetchUserProfile" /\ a.pc = "response"
    /\ IF a.profile # None
       THEN /\ user' = Some(VoterOf(Get(a.profile)))
            /\ userOid' = FreshOid
       ELSE /\ user' = None
            /\ userOid' = 0
    /\ Finish(a)
    /\ Quiet
    /\ UNCHANGED <<storeVars, calls, dash, flow, hist, providerSession, otpIssued, supabaseUser, session,
                   pendingPhone, pendingEmail>>

\* What the provider answers to signInWithOtp and to signOut.
ProviderAnswers == {"ok", "error"}

\* What the provider answers to verifyOtp({phone, email, token, type}): it
\* accepts a code only for an identifier it has sent one to.
VerifyOtpAnswers(phone, email) ==
    {"error"} \cup
    (IF ({phone, email} \ {None}) \cap {Some(i) : i \in otpIssued} # {} THEN {"ok"} ELSE {})

\* history: a login or loginWithEmail call has been made
NoteLoginCall == hist' = [hist EXCEPT !.loginCalled = TRUE]
\* history: a sign-in (verifyOtp, adminLogin) has succeeded since the last logout
NoteSignIn == hist' = [hist EXCEPT !.loggedOut = FALSE]
\* history: logout has run to its end
NoteLogout == hist' = [hist EXCEPT !.loggedOut = TRUE]

\* Login function (phone OTP)
login(phone) ==
    /\ NoteLoginCall
    /\ IF ~RegexTest(PhoneRegex, phone)
       THEN /\ Returns("login", FALSE, "Please enter a valid 10-digit phone number")
            /\ sent' = {}
            /\ UNCHANGED <<storeVars, calls, dash, flow, authVars>>
       ELSE LET formattedPhone == <<"+", "9", "1">> \o phone
            IN /\ HasFreeSlot
               /\ pendingPhone' = Some(formattedPhone)
               /\ Start([op |-> "login", phone |-> formattedPhone])
               /\ sent' = {[kind |-> "signInWithOtp", to |-> formattedPhone]}
               /\ ret' = None
               /\ UNCHANGED <<storeVars, calls, dash, flow, providerSession, otpIssued, user,
                              userOid, supabaseUser, session, pendingEmail>>

login_response(a, ans) ==
    /\ a.op = "login"
    /\ IF ans = "ok"
       THEN /\ otpIssued' = otpIssued \cup {a.phone}
            /\ Returns("login", TRUE, "OTP sent to your mobile number")
       ELSE /\ otpIssued' = otpIssued
            /\ Returns("login", FALSE, "Failed to send OTP. Please try again.")
    /\ Finish(a)
    /\ sent' = {}
    /\ UNCHANGED <<storeVars, calls, dash, flow, hist, providerSession, user, userOid,
                   supabaseUser, session, pendingPhone, pendingEmail>>

\* Email OTP login
loginWithEmail(email) ==
    /\ NoteLoginCall
    /\ IF ~IncludesAt(email)
       THEN /\ Returns("loginWithEmail", FALSE, "Please enter a valid email address")
            /\ sent' = {}
            /\ UNCHANGED <<storeVars, calls, dash, authVars>>
       ELSE /\ HasFreeSlot
            /\ pendingEmail' = Some(email)
            /\ Start([op |-> "loginWithEmail", email |-> email])
            /\ sent' = {[kind |-> "signInWithOtp", to |-> email]}
            /\ ret' = None
            /\ UNCHANGED <<storeVars, calls, dash, providerSession, otpIssued, user,
                           userOid, supabaseUser, session, pendingPhone>>

loginWithEmail_response(a, ans) ==
    /\ a.op = "loginWithEmail"
    /\ IF ans = "ok"
       THEN /\ otpIssued' = otpIssued \cup {a.email}
            /\ Returns("loginWithEmail", TRUE, "OTP sent to your email address")
       ELSE /\ otpIssued' = otpIssued
            /\ Returns("loginWithEmail", FALSE, "Failed to send OTP. Please try again.")
    /\ Finish(a)
    /\ sent' = {}
    /\ UNCHANGED <<storeVars, calls, dash, hist, providerSession, user, userOid,
                   supabaseUser, session, pendingPhone, pendingEmail>>

\* OTP verification without the check for a pending phone or email.
verifyOtp_noPendingCheck(otp) ==
    /\ HasFreeSlot
    /\ Start([op |-> "verifyOtp", phone |-> pendingPhone, email |-> pendingEmail])
    /\ sent' = {[kind |-> "verifyOtp", phone |-> pendingPhone, email |-> pendingEmail,
                 token |-> otp, type |-> "email"]}
    /\ ret' = None
    /\ UNCHANGED <<storeVars, calls, dash, hist, providerSession, otpIssued, user,
                   userOid, supabaseUser, session, pendingPhone, pendingEmail>>

\* OTP verification
verifyOtp(otp) ==
    IF pendingPhone = None /\ pendingEmail = None
    THEN /\ Returns("verifyOtp", FALSE,
                    "No authentication method found. Please try logging in again.")
         /\ sent' = {}
         /\ UNCHANGED <<storeVars, calls, dash, hist, authVars>>
    ELSE /\ HasFreeSlot
         /\ Start([op |-> "verifyOtp", phone |-> pendingPhone, email |-> pendingEmail])
         /\ sent' = {[kind |-> "verifyOtp", phone |-> pendingPhone, email |-> pendingEmail,
                      token |-> otp, type |-> "email"]}
         /\ ret' = None
         /\ UNCHANGED <<storeVars, calls, dash, hist, providerSession, otpIssued, user,
                        userOid, supabaseUser, session, pendingPhone, pendingEmail>>

\* verifyOtp whose accepted code sets off no profile fetch.
verifyOtp_response_noHydration(a, ans) ==
    /\ a.op = "verifyOtp"
    /\ ans \in VerifyOtpAnswers(a.phone, a.email)
    /\ IF ans = "ok"
       THEN LET identifier == IF a.email # None THEN Get(a.email) ELSE Get(a.phone)
                newSession == SessionOf(IdentityOf(identifier))
            IN /\ providerSession' = Some(newSession)
               /\ otpIssued' = otpIssued \ {Get(i) : i \in {a.phone, a.email} \ {None}}
               /\ session' = Some(newSession)
               /\ supabaseUser' = Some(newSession.user)
               /\ Finish(a)
               /\ pendingPhone' = None
               /\ pendingEmail' = None
               /\ Returns("verifyOtp", TRUE, "OTP verified successfully")
               /\ NoteSignIn
       ELSE /\ Finish(a)
            /\ Returns("verifyOtp", FALSE, "OTP verification failed. Please try again.")
            /\ UNCHANGED <<providerSession, otpIssued, session, supabaseUser,
                           pendingPhone, pendingEmail, hist>>
    /\ sent' = {}
    /\ UNCHANGED <<storeVars, calls, dash, user, userOid>>

\* The provider's answer to verifyOtp.  When it accepts, it holds a session and
\* notifies the subscriber (the onAuthStateChange callback, which defers the
\* profile fetch with setTimeout) before verifyOtp continues.
verifyOtp_response(a, ans) ==
    /\ a.op = "verifyOtp"
    /\ ans \in VerifyOtpAnswers(a.phone, a.email)
    /\ IF ans = "ok"
       THEN LET identifier == IF a.email # None THEN Get(a.email) ELSE Get(a.phone)
                newSession == SessionOf(IdentityOf(identifier))
            IN /\ providerSession' = Some(newSession)
               /\ otpIssued' = otpIssued \ {Get(i) : i \in {a.phone, a.email} \ {None}}
               /\ session' = Some(newSession)
               /\ supabaseUser' = Some(newSession.user)
               /\ Continue(a, FetchActivation(newSession.user.id))
               /\ pendingPhone' = None
               /\ pendingEmail' = None
               /\ Returns("verifyOtp", TRUE, "OTP verified successfully")
               /\ NoteSignIn
       ELSE /\ Finish(a)
            /\ Returns("verifyOtp", FALSE, "OTP verification failed. Please try again.")
            /\ UNCHANGED <<providerSession, otpIssued, session, supabaseUser,
                           pendingPhone, pendingEmail, hist>>
    /\ sent' = {}
    /\ UNCHANGED <<storeVars, calls, dash, user, userOid>>

\* Verify voter ID or Aadhaar
verifyVoterId(id, idType) ==
    IF idType = "aadhaar" /\ ~RegexTest(AadhaarRegex, id)
    THEN /\ Returns("verifyVoterId", FALSE, "Please enter a valid 12-digit Aadhaar number")
         /\ sent' = {}
         /\ UNCHANGED <<storeVars, calls, dash, flow, hist, authVars>>
    ELSE IF idType = "voterId" /\ ~RegexTest(VoterIdRegex, id)
    THEN /\ Returns("verifyVoterId", FALSE,
                    "Please enter a valid Voter ID (Format: ABC1234567)")
         /\ sent' = {}
         /\ UNCHANGED <<storeVars, calls, dash, flow, hist, authVars>>
    ELSE IF supabaseUser = None
    THEN /\ Returns("verifyVoterId", FALSE, "User profile not found. Please log in again.")
         /\ sent' = {}
         /\ UNCHANGED <<storeVars, calls, dash, flow, hist, authVars>>
    ELSE LET updates == IF idType = "aadhaar" THEN [aadhaar_number |-> Some(id)]
                        ELSE [voter_id |-> Some(id)]
         IN /\ HasFreeSlot
            /\ Start([op |-> "verifyVoterId", id |-> id, idType |-> idType,
                      userId |-> Get(supabaseUser).id, updates |-> updates,
                      user |-> user, userOid |-> userOid])
            /\ sent' = {[kind |-> "profiles.update", id |-> Get(supabaseUser).id,
                         updates |-> updates]}
            /\ ret' = None
            /\ UNCHANGED <<storeVars, calls, dash, flow, hist, providerSession, otpIssued, user,
                           userOid, supabaseUser, session, pendingPhone, pendingEmail>>

\* updateUserProfile answers; on success the local user state is updated from
\* the user the call captured.
verifyVoterId_response(a, success) ==
    /\ a.op = "verifyVoterId"
    /\ IF success
       THEN /\ profiles' = UpdateProfile(a.userId, a.updates)
            /\ IF isVoter(a.user)
               THEN /\ user' = Some([Get(a.user) EXCEPT
                           ![IF a.idType = "aadhaar" THEN "aadhaarNumber" ELSE "voterId"]
                               = Some(a.id)])
                    /\ userOid' = FreshOid
               ELSE UNCHANGED <<user, userOid>>
            /\ Returns("verifyVoterId", TRUE,
                       IF a.idType = "aadhaar" THEN "Aadhaar verified successfully"
                       ELSE "Voter ID verified successfully")
       ELSE /\ Returns("verifyVoterId", FALSE, "Failed to update profile")
            /\ UNCHANGED <<profiles, user, userOid>>
    /\ Finish(a)
    /\ sent' = {}
    /\ UNCHANGED <<votes, calls, dash, flow, hist, providerSession, otpIssued, supabaseUser,
                   session, pendingPhone, pendingEmail>>

\* Admin login that does not compare the password.
adminLogin_anyPassword(username, password) ==
    /\ IF username = "admin"
       THEN /\ user' = Some(AdminUser)
            /\ userOid' = FreshOid
            /\ Returns("adminLogin", TRUE, "Admin login successful")
            /\ NoteSignIn
       ELSE /\ Returns("adminLogin", FALSE,
                       "Invalid credentials. For demo, use admin/password")
            /\ UNCHANGED <<user, userOid, hist>>
    /\ sent' = {}
    /\ UNCHANGED <<storeVars, calls, dash, flow, providerSession, otpIssued, supabaseUser,
                   session, pendingPhone, pendingEmail, ops>>

\* Admin login (hardcoded for demo)
adminLogin(username, password) ==
    /\ IF username = "admin" /\ password = "password"
       THEN /\ user' = Some(AdminUser)
            /\ userOid' = FreshOid
            /\ Returns("adminLogin", TRUE, "Admin login successful")
            /\ NoteSignIn
       ELSE /\ Returns("adminLogin", FALSE,
                       "Invalid credentials. For demo, use admin/password")
            /\ UNCHANGED <<user, userOid, hist>>
    /\ sent' = {}
    /\ UNCHANGED <<storeVars, calls, dash, flow, providerSession, otpIssued, supabaseUser,
                   session, pendingPhone, pendingEmail, ops>>

\* Logout function
logout ==
    /\ HasFreeSlot
    /\ Start([op |-> "logout"])
    /\ sent' = {[kind |-> "signOut"]}
    /\ ret' = None
    /\ UNCHANGED <<storeVars, calls, dash, flow, hist, providerSession, otpIssued, user,
                   userOid, supabaseUser, session, pendingPhone, pendingEmail>>

\* signOut resolves: the provider has dropped its session and notified the
\* subscriber (onAuthStateChange with no session), then logout clears the
\* user; or signOut throws.  logout returns nothing: val is TRUE when it ran to
\* its end and FALSE when it ended in its catch.
\* The answer to signOut, with the pending identifiers cleared on sign-out.
logout_response_clearsPending(a, ans) ==
    /\ a.op = "logout"
    /\ IF ans = "ok"
       THEN /\ providerSession' = None
            /\ session' = None
            /\ supabaseUser' = None
            /\ user' = None
            /\ userOid' = 0
            /\ pendingPhone' = None
            /\ pendingEmail' = None
            /\ Returns("logout", TRUE, "You have been logged out")
            /\ NoteLogout
       ELSE /\ Returns("logout", FALSE, "Failed to sign out")
            /\ UNCHANGED <<providerSession, session, supabaseUser, user, userOid, hist,
                           pendingPhone, pendingEmail>>
    /\ Finish(a)
    /\ sent' = {}
    /\ UNCHANGED <<storeVars, calls, dash, flow, otpIssued>>

logout_response(a, ans) ==
    /\ a.op = "logout"
    /\ IF ans = "ok"
       THEN /\ providerSession' = None
            /\ session' = None
            /\ supabaseUser' = None
            /\ user' = None
            /\ userOid' = 0
            /\ Returns("logout", TRUE, "You have been logged out")
            /\ NoteLogout
       ELSE /\ Returns("logout", FALSE, "Failed to sign out")
            /\ UNCHANGED <<providerSession, session, supabaseUser, user, userOid, hist>>
    /\ Finish(a)
    /\ sent' = {}
    /\ UNCHANGED <<storeVars, calls, dash, flow, otpIssued, pendingPhone, pendingEmail>>

\* ----------------------------------------------------- the voter dashboard
\* rows of the candidates table: id -> constituency_id
CandidateConstituency == [c \in Candidates |-> "k1"]

\* checkVoteStatus(voterId): the has_voted flag, false on any error
checkVoteStatus(voterId) ==
    {FALSE} \cup {profiles[p].has_voted : p \in DOMAIN profiles \cap {voterId}}

\* getConstituencyByName(name): the row, null on any error (no such row)
getConstituencyByName(name) ==
    {None} \cup {Some([id |-> k, name |-> name]) : k \in {j \in Constituencies : ConstituencyName[j] = name}}

\* getCandidatesByConstituency(constituencyId): the rows' ids, [] on any error
getCandidatesByConstituency(constituencyId) ==
    { {}, {c \in Candidates : CandidateConstituency[c] = constituencyId} }

\* checkVoteStatus(voterId) with the store's answer.
checkVoteStatus_returns(voterId, ans) ==
    IF ans = "error" \/ voterId \notin DOMAIN profiles
    THEN [val |-> FALSE, toast |-> "none"]
    ELSE [val |-> profiles[voterId].has_voted, toast |-> "none"]

\* getConstituencyByName(name) with the store's answer.
getConstituencyByName_returns(name, ans) ==
    IF ans = "error" \/ \A k \in Constituencies : ConstituencyName[k] # name
    THEN [val |-> None, toast |-> "none"]
    ELSE [val |-> CHOOSE r \in getConstituencyByName(name) : r # None, toast |-> "none"]

\* getCandidatesByConstituency(constituencyId) with the store's answer.
getCandidatesByConstituency_returns(constituencyId, ans) ==
    IF ans = "error"
    THEN [val |-> {}, toast |-> "Failed to load candidates"]
    ELSE [val |-> {c \in Candidates : CandidateConstituency[c] = constituencyId},
          toast |-> "none"]

\* getConstituencies() with the store's answer.
getConstituencies_returns(ans) ==
    IF ans = "error"
    THEN [val |-> {}, toast |-> "Failed to load constituencies"]
    ELSE [val |-> {[id |-> k, name |-> ConstituencyName[k]] : k \in Constituencies},
          toast |-> "none"]

\* updateUserProfile(userId, updates) with the store's answer.
updateUserProfile_returns(userId, updates, ans) ==
    IF ans = "error"
    THEN [val |-> FALSE, toast |-> "Failed to update profile"]
    ELSE [val |-> TRUE, toast |-> "none"]

\* The copies bag B holds of the elements of S.
RECURSIVE CopiesOver(_, _)
CopiesOver(B, S) ==
    IF S = {} THEN 0
    ELSE LET x == CHOOSE y \in S : TRUE IN B[x] + CopiesOver(B, S \ {x})

\* user.hasVoted = true on the object oid: every holder of that object sees it.
SetHasVoted(oid, u) == IF u = None THEN None ELSE Some([Get(u) EXCEPT !.hasVoted = TRUE])
MutateClosure(oid, a) ==
    IF "user" \in DOMAIN a /\ a.userOid = oid
    THEN [a EXCEPT !.user = SetHasVoted(oid, a.user)] ELSE a

\* The closures of an unmounted component: their state updates are dropped.
Unmounted(a) == IF "live" \in DOMAIN a THEN [a EXCEPT !.live = FALSE] ELSE a

\* The bag B after user.hasVoted = true on the object oid.
MutateAll(oid, B) ==
    [y \in {MutateClosure(oid, x) : x \in DOMAIN B} |->
        CopiesOver(B, {x \in DOMAIN B : MutateClosure(oid, x) = y})]
\* The bag B after the component has unmounted.
UnmountAll(B) ==
    [y \in {Unmounted(x) : x \in DOMAIN B} |->
        CopiesOver(B, {x \in DOMAIN B : Unmounted(x) = y})]

\* useState initial values; deps are the effect's dependencies at its last run.
DashInit ==
    [isVoted |-> FALSE, selectedCandidate |-> None, constituency |-> None,
     candidates |-> {}, loading |-> FALSE, deps |-> None]

EffectDeps == <<userOid, supabaseUser>>
\* The component has rendered with a user it redirects from, or with
\* dependencies its effect has not run for.
RenderPending ==
    dash # None /\ (~isVoter(user) \/ Get(dash).deps # Some(EffectDeps))
Settled == ~RenderPending
\* The dashboard renders its cards (it has not redirected).
DashboardShown == dash # None /\ isVoter(user)

\* The router mounts VoterDashboard for a voter.
VoterDashboard_mount ==
    /\ dash = None
    /\ isVoter(user)
    /\ HasFreeSlot
    /\ dash' = Some(DashInit)
    /\ Quiet
    /\ UNCHANGED <<flow, storeVars, calls, authVars, hist>>

\* After a render: redirect if not logged in or not a voter (the component
\* unmounts), else run the effect when user or supabaseUser has changed.
VoterDashboard_render ==
    /\ dash # None
    /\ IF ~isVoter(user)
       THEN /\ dash' = None
            /\ ops' = UnmountAll(ops)
       ELSE /\ Get(dash).deps # Some(EffectDeps)
            /\ dash' = Some([Get(dash) EXCEPT !.deps = Some(EffectDeps)])
            /\ IF Get(user).constituency # "" /\ supabaseUser # None
               THEN Start([op |-> "loadData", pc |-> "checkVoteStatus",
                           userId |-> Get(supabaseUser).id, user |-> user,
                           userOid |-> userOid, live |-> TRUE])
               ELSE UNCHANGED ops
    /\ Quiet
    /\ UNCHANGED <<flow, storeVars, calls, hist, providerSession, otpIssued, user, userOid,
                   supabaseUser, session, pendingPhone, pendingEmail>>

\* loadData: checkVoteStatus's request reaches the store.
loadData_checkVoteStatus_request(a) ==
    /\ a.op = "loadData" /\ a.pc = "checkVoteStatus"
    /\ \E hasVoted \in checkVoteStatus(a.userId) :
          Continue(a, [op |-> "loadData", pc |-> "hasVoted", hasVoted |-> hasVoted,
                       userId |-> a.userId, user |-> a.user, userOid |-> a.userOid,
                       live |-> a.live])
    /\ Quiet
    /\ UNCHANGED <<storeVars, calls, dash, flow, hist, providerSession, otpIssued, user, userOid,
                   supabaseUser, session, pendingPhone, pendingEmail>>

\* loadData: the vote status arrives; setIsVoted(hasVoted || user.hasVoted).
loadData_checkVoteStatus_response(a) ==
    /\ a.op = "loadData" /\ a.pc = "hasVoted"
    /\ dash' = IF a.live /\ dash # None
               THEN Some([Get(dash) EXCEPT !.isVoted = a.hasVoted \/ Get(a.user).hasVoted])
               ELSE dash
    /\ Continue(a, [op |-> "loadData", pc |-> "getConstituencyByName",
                    userId |-> a.userId, user |-> a.user, userOid |-> a.userOid,
                    live |-> a.live])
    /\ Quiet
    /\ UNCHANGED <<flow, storeVars, calls, hist, providerSession, otpIssued, user, userOid,
                   supabaseUser, session, pendingPhone, pendingEmail>>

\* loadData: get constituency details.
loadData_getConstituencyByName(a) ==
    /\ a.op = "loadData" /\ a.pc = "getConstituencyByName"
    /\ \E constituencyData \in getConstituencyByName(Get(a.user).constituency) :
          IF constituencyData # None
          THEN /\ dash' = IF a.live /\ dash # None
                          THEN Some([Get(dash) EXCEPT !.constituency = constituencyData])
                          ELSE dash
               /\ Continue(a, [op |-> "loadData", pc |-> "getCandidatesByConstituency",
                               constituencyId |-> Get(constituencyData).id,
                               userId |-> a.userId, user |-> a.user,
                               userOid |-> a.userOid, live |-> a.live])
          ELSE /\ dash' = dash
               /\ Finish(a)
    /\ Quiet
    /\ UNCHANGED <<flow, storeVars, calls, hist, providerSession, otpIssued, user, userOid,
                   supabaseUser, session, pendingPhone, pendingEmail>>

\* loadData: get candidates for this constituency.
loadData_getCandidatesByConstituency(a) ==
    /\ a.op = "loadData" /\ a.pc = "getCandidatesByConstituency"
    /\ \E candidatesData \in getCandidatesByConstituency(a.constituencyId) :
          dash' = IF a.live /\ dash # None
                  THEN Some([Get(dash) EXCEPT !.candidates = candidatesData])
                  ELSE dash
    /\ Finish(a)
    /\ Quiet
    /\ UNCHANGED <<flow, storeVars, calls, hist, providerSession, otpIssued, user, userOid,
                   supabaseUser, session, pendingPhone, pendingEmail>>

\* A click on a candidate of the list, rendered while isVoted is false.
selectCandidate(candidate) ==
    /\ DashboardShown
    /\ ~Get(dash).isVoted
    /\ candidate \in Get(dash).candidates
    /\ dash' = Some([Get(dash) EXCEPT !.selectedCandidate = Some(candidate)])
    /\ Quiet
    /\ UNCHANGED <<flow, storeVars, calls, authVars, hist>>

\* A click on "Cast Your Vote", rendered while isVoted is false and enabled
\* with a candidate selected, not loading and candidates listed: handleVote up
\* to its await of castVote.
\* The vote handler passing the constituency and the candidate to castVote in
\* each other's place.
handleVote_swapsArguments(c) ==
    /\ DashboardShown
    /\ ~Get(dash).isVoted
    /\ Get(dash).selectedCandidate # None /\ ~Get(dash).loading /\ Get(dash).candidates # {}
    /\ isVoter(user) /\ supabaseUser # None /\ Get(dash).constituency # None
    /\ HasFreeSlot
    /\ dash' = Some([Get(dash) EXCEPT !.loading = TRUE])
    /\ castVote_call(c, Get(supabaseUser).id, Get(Get(dash).constituency).id,
                     Get(Get(dash).selectedCandidate))
    /\ Start([op |-> "handleVote", call |-> c, user |-> user, userOid |-> userOid,
              live |-> TRUE])
    /\ sent' = {[kind |-> "castVote", voterId |-> Get(supabaseUser).id,
                 candidateId |-> Get(Get(dash).constituency).id,
                 constituencyId |-> Get(Get(dash).selectedCandidate)]}
    /\ ret' = None
    /\ UNCHANGED <<flow, hist, providerSession, otpIssued, user, userOid, supabaseUser, session,
                   pendingPhone, pendingEmail>>

handleVote(c) ==
    /\ DashboardShown
    /\ ~Get(dash).isVoted
    /\ Get(dash).selectedCandidate # None /\ ~Get(dash).loading /\ Get(dash).candidates # {}
    /\ isVoter(user) /\ supabaseUser # None /\ Get(dash).constituency # None
    /\ HasFreeSlot
    /\ dash' = Some([Get(dash) EXCEPT !.loading = TRUE])
    /\ castVote_call(c, Get(supabaseUser).id, Get(Get(dash).selectedCandidate),
                     Get(Get(dash).constituency).id)
    /\ Start([op |-> "handleVote", call |-> c, user |-> user, userOid |-> userOid,
              live |-> TRUE])
    /\ sent' = {[kind |-> "castVote", voterId |-> Get(supabaseUser).id,
                 candidateId |-> Get(Get(dash).selectedCandidate),
                 constituencyId |-> Get(Get(dash).constituency).id]}
    /\ ret' = None
    /\ UNCHANGED <<flow, hist, providerSession, otpIssued, user, userOid, supabaseUser, session,
                   pendingPhone, pendingEmail>>

\* castVote proceeds for handleVote; when it returns, handleVote continues in
\* the same turn: on success setIsVoted(true) and user.hasVoted = true on the
\* user object the handler captured, finally setLoading(false).
handleVote_await(a) ==
    /\ a.op = "handleVote"
    /\ castVote_step(a.call)
    /\ IF calls'[a.call].pc = "done"
       THEN LET success == calls'[a.call].ret
            IN /\ dash' = IF a.live /\ dash # None
                          THEN Some([Get(dash) EXCEPT !.isVoted = @ \/ success,
                                                     !.loading = FALSE])
                          ELSE dash
               /\ user' = IF success /\ userOid = a.userOid
                          THEN SetHasVoted(a.userOid, user) ELSE user
               /\ ops' = IF success
                         THEN MutateAll(a.userOid, ops (-) SetToBag({a}))
                         ELSE ops (-) SetToBag({a})
       ELSE UNCHANGED <<dash, user, ops>>
    /\ Quiet
    /\ UNCHANGED <<flow, hist, providerSession, otpIssued, userOid, supabaseUser, session,
                   pendingPhone, pendingEmail>>

\* --------------------------------------------------------- the login page
\* VoterLogin (src/pages/VoterLogin.tsx), from its mount to its navigation
\* to /verify-id.  The page takes loginWithEmail, verifyOtp and resendOtp from
\* the AuthProvider's context value.  The buttons' `loading` flag is not
\* modelled: a handler may start while another is awaiting, which only adds
\* behaviours.

\* The seconds of the resend cooldown.
ResendCooldown == 30

\* The members of the context value the AuthProvider hands to its consumers.
AuthContextValue ==
    { "user", "supabaseUser", "session", "login", "loginWithEmail", "verifyOtp",
      "verifyVoterId", "adminLogin", "logout", "loading" }

\* The state after the page's useState calls.
VoterLogin_useState ==
    [ route |-> "/login", otpSent |-> FALSE, resendDisabled |-> FALSE,
      resendCountdown |-> 0, rejection |-> "none" ]

VoterLoginMounted == flow.route = "/login"

\* The countdown effect has work to do that needs no timer: it re-enables the
\* resend button right after the render that shows a countdown of 0.
ResendEffectPending ==
    VoterLoginMounted /\ flow.resendCountdown = 0 /\ flow.resendDisabled

\* The effect's timer fires one second after the render.
VoterLogin_tick ==
    /\ VoterLoginMounted
    /\ flow.resendCountdown > 0
    /\ flow' = [flow EXCEPT !.resendCountdown = @ - 1]
    /\ Quiet
    /\ UNCHANGED <<storeVars, calls, dash, hist, authVars>>

VoterLogin_effect ==
    /\ ResendEffectPending
    /\ flow' = [flow EXCEPT !.resendDisabled = FALSE]
    /\ Quiet
    /\ UNCHANGED <<storeVars, calls, dash, hist, authVars>>

\* The email form is shown until the OTP was sent; its button is disabled
\* unless the email holds an "@".
handleSendOtp(email) ==
    /\ VoterLoginMounted
    /\ ~flow.otpSent
    /\ IncludesAt(email)
    /\ loginWithEmail(email)
    /\ UNCHANGED flow

\* The page's continuation starting the cooldown whatever loginWithEmail
\* returned.
handleSendOtp_await_alwaysCooldown(a, ans) ==
    /\ loginWithEmail_response(a, ans)
    /\ flow' = IF VoterLoginMounted
               THEN [flow EXCEPT !.otpSent = Get(ret').val \/ @, !.resendDisabled = TRUE,
                                 !.resendCountdown = ResendCooldown]
               ELSE flow

\* loginWithEmail has answered: the page goes on after its await.  A page
\* that has been unmounted drops the updates.
handleSendOtp_await(a, ans) ==
    /\ loginWithEmail_response(a, ans)
    /\ flow' = IF Get(ret').val /\ VoterLoginMounted
               THEN [flow EXCEPT !.otpSent = TRUE, !.resendDisabled = TRUE,
                                 !.resendCountdown = ResendCooldown]
               ELSE flow

\* The OTP form is shown once the OTP was sent; its button is disabled until
\* six characters are typed.
handleVerifyOtp(otp) ==
    /\ VoterLoginMounted
    /\ flow.otpSent
    /\ Len(otp) >= 6
    /\ verifyOtp(otp)
    /\ UNCHANGED flow

\* The page's continuation navigating whatever verifyOtp returned.
handleVerifyOtp_await_alwaysNavigates(a, ans) ==
    /\ verifyOtp_response(a, ans)
    /\ flow' = IF VoterLoginMounted
               THEN [flow EXCEPT !.route = "/verify-id"]
               ELSE flow

handleVerifyOtp_await(a, ans) ==
    /\ verifyOtp_response(a, ans)
    /\ flow' = IF Get(ret').val /\ VoterLoginMounted
               THEN [flow EXCEPT !.route = "/verify-id"]
               ELSE flow

\* The resend handler.  The context value has no member resendOtp, so the
\* name is undefined in the page and calling it throws a TypeError out of the
\* handler, before any request and before any state update; nothing catches
\* it (flow.rejection records the handler's unhandled rejection).
handleResendOtp ==
    /\ VoterLoginMounted
    /\ flow.otpSent
    /\ IF flow.resendDisabled
       THEN flow' = flow
       ELSE /\ "resendOtp" \notin AuthContextValue
            /\ flow' = [flow EXCEPT !.rejection = "TypeError"]
    /\ Quiet
    /\ UNCHANGED <<storeVars, calls, dash, hist, authVars>>

\* "Change Email Address"
changeEmail ==
    /\ VoterLoginMounted
    /\ flow.otpSent
    /\ flow' = [flow EXCEPT !.otpSent = FALSE]
    /\ Quiet
    /\ UNCHANGED <<storeVars, calls, dash, hist, authVars>>

\* ------------------------------- the record access layer, called directly
\* A caller invokes a read of the record access layer and receives its value.
getConstituencies_call(ans) ==
    /\ ret' = Some([op |-> "getConstituencies"] @@ getConstituencies_returns(ans))
    /\ sent' = {[kind |-> "constituencies.select"]}
    /\ UNCHANGED <<storeVars, calls, authVars, dash, flow, hist>>

getConstituencyByName_call(name, ans) ==
    /\ ret' = Some([op |-> "getConstituencyByName"] @@ getConstituencyByName_returns(name, ans))
    /\ sent' = {[kind |-> "constituencies.select", name |-> name]}
    /\ UNCHANGED <<storeVars, calls, authVars, dash, flow, hist>>

getCandidatesByConstituency_call(constituencyId, ans) ==
    /\ ret' = Some([op |-> "getCandidatesByConstituency"]
                      @@ getCandidatesByConstituency_returns(constituencyId, ans))
    /\ sent' = {[kind |-> "candidates.select", constituency_id |-> constituencyId]}
    /\ UNCHANGED <<storeVars, calls, authVars, dash, flow, hist>>

checkVoteStatus_call(voterId, ans) ==
    /\ ret' = Some([op |-> "checkVoteStatus"] @@ checkVoteStatus_returns(voterId, ans))
    /\ sent' = {[kind |-> "profiles.select", id |-> voterId]}
    /\ UNCHANGED <<storeVars, calls, authVars, dash, flow, hist>>

getUserProfile_call(userId, ans) ==
    /\ ret' = Some([op |-> "getUserProfile"] @@ getUserProfile_returns(userId, ans))
    /\ sent' = {[kind |-> "profiles.select", id |-> userId]}
    /\ UNCHANGED <<storeVars, calls, authVars, dash, flow, hist>>

updateUserProfile_call(userId, updates, ans) ==
    /\ ret' = Some([op |-> "updateUserProfile"] @@ updateUserProfile_returns(userId, updates, ans))
    /\ profiles' = IF ans = "ok" THEN UpdateProfile(userId, updates) ELSE profiles
    /\ sent' = {[kind |-> "profiles.update", id |-> userId, updates |-> updates]}
    /\ UNCHANGED <<votes, calls, authVars, dash, flow, hist>>

\* ------------------------------------------------------------ properties
\* c returned before d was called, and both are for the same voter id.
CallsInSequence(c, d) ==
    /\ calls[d].pc # "idle"
    /\ c \in calls[d].after
    /\ calls[c].voterId = calls[d].voterId

\* C1 as stated: of two castVote calls in sequence for the same voter id, the
\* second returns false and the votes table holds no second row for the voter.
C1_SecondCallReturnsFalse ==
    \A c \in CallIds, d \in CallIds :
        CallsInSequence(c, d) /\ Returned(d) =>
            /\ calls[d].ret = FALSE
            /\ Cardinality(VoteRows(calls[d].voterId)) <= 1

\* C1 amended: of two castVote calls in sequence for the same voter id, when
\* the first inserted the voter's row (as it has whenever it returned true)
\* the second returns false and writes nothing; in every case the votes table
\* holds no second row for the voter.
C1_SecondCallRejectedAfterInsert ==
    \A c \in CallIds, d \in CallIds :
        CallsInSequence(c, d) =>
            /\ Cardinality(VoteRows(calls[d].voterId)) <= 1
            /\ calls[c].ret => "votes" \in calls[c].wrote
            /\ "votes" \in calls[c].wrote =>
                   /\ calls[d].wrote = {}
                   /\ Returned(d) => calls[d].ret = FALSE

\* The first call succeeded and a later call, for another candidate, was
\* rejected at the existence check.
C1_Witness ==
    \E c \in CallIds, d \in CallIds :
        /\ CallsInSequence(c, d) /\ Returned(d)
        /\ calls[c].ret
        /\ calls[d].candidateId # calls[c].candidateId
        /\ calls[d].toast = "You have already cast your vote"

\* C2: however castVote calls for one voter id interleave, at most one returns
\* true and at most one vote row for the voter exists; a call that passed the
\* existence check and was refused by the store's unique constraint returns
\* false having written nothing.
C2_AtMostOneSucceeds ==
    \A v \in Voters :
        /\ Cardinality({c \in CallIds : calls[c].pc # "idle" /\ calls[c].voterId = v
                                        /\ calls[c].ret}) <= 1
        /\ Cardinality(VoteRows(v)) <= 1
        /\ \A c \in CallIds :
              calls[c].pc # "idle" /\ calls[c].error = "unique_violation" =>
                  calls[c].ret = FALSE /\ calls[c].wrote = {}

\* Two concurrent calls for one voter both passed the existence check; one
\* returned true and the store refused the other's insert.
C2_Witness ==
    \E c \in CallIds, d \in CallIds :
        /\ c # d /\ Returned(c) /\ Returned(d)
        /\ calls[c].voterId = calls[d].voterId
        /\ c \notin calls[d].after /\ d \notin calls[c].after
        /\ calls[c].ret
        /\ calls[d].error = "unique_violation"

\* C3 as stated: whenever no castVote call for a voter is in progress, the
\* voter's has_voted flag is true if and only if a vote row for the voter exists.
C3_FlagIffVoteRow ==
    \A v \in Voters :
        (\A c \in CallIds : calls[c].pc # "idle" /\ calls[c].voterId = v => Returned(c)) =>
            (profiles[v].has_voted <=> VoteRows(v) # {})

RetIs(r, op, val) == r # None /\ Get(r).op = op /\ Get(r).val = val

\* C4: a verifyOtp invoked when no login or loginWithEmail call has been made
\* returns false, sends no verification request, and leaves the session and
\* the user as they are.
C4_VerifyOtpWithoutLogin ==
    [][\A otp \in OtpInputs :
          verifyOtp(otp) /\ ~hist.loginCalled =>
              /\ RetIs(ret', "verifyOtp", FALSE)
              /\ sent' = {} /\ ops' = ops
              /\ session' = session /\ supabaseUser' = supabaseUser
              /\ providerSession' = providerSession
              /\ user' = user]_vars

C4_Witness ==
    /\ ~hist.loginCalled
    /\ RetIs(ret, "verifyOtp", FALSE)
    /\ sent = {}

TenDigits(phone) == Len(phone) = 10 /\ \A i \in 1..Len(phone) : phone[i] \in Digits
HasAtSign(email) == "@" \in {email[i] : i \in 1..Len(email)}

\* C5: login with a phone that is not exactly 10 digits, and loginWithEmail
\* with an email without "@", return false and issue no OTP request.
C5_InvalidInputNoRequest ==
    [][/\ \A phone \in PhoneInputs :
             login(phone) /\ ~TenDigits(phone) =>
                 /\ RetIs(ret', "login", FALSE)
                 /\ sent' = {} /\ ops' = ops /\ otpIssued' = otpIssued
       /\ \A email \in EmailInputs :
             loginWithEmail(email) /\ ~HasAtSign(email) =>
                 /\ RetIs(ret', "loginWithEmail", FALSE)
                 /\ sent' = {} /\ ops' = ops /\ otpIssued' = otpIssued]_vars

C5_Witness ==
    /\ RetIs(ret, "login", FALSE)
    /\ Get(ret).toast = "Please enter a valid 10-digit phone number"
    /\ sent = {}
    /\ pendingPhone = None

\* C7: adminLogin returns true and sets the user to a record with role "admin"
\* exactly for admin / password; for any other pair it returns false and leaves
\* the user as it is.  Either way it sends the provider nothing and no
\* provider session comes to exist.
C7_AdminLogin ==
    [][\A username \in UsernameInputs, password \in PasswordInputs :
          adminLogin(username, password) =>
              LET match == username = "admin" /\ password = "password"
              IN /\ RetIs(ret', "adminLogin", match)
                 /\ match => /\ user' # None
                             /\ "role" \in DOMAIN Get(user')
                             /\ Get(user').role = "admin"
                 /\ ~match => user' = user
                 /\ sent' = {} /\ ops' = ops
                 /\ providerSession' = providerSession
                 /\ session' = session /\ supabaseUser' = supabaseUser]_vars

C7_Witness ==
    /\ RetIs(ret, "adminLogin", TRUE)
    /\ user = Some(AdminUser)
    /\ providerSession = None /\ session = None

TwelveDigits(id) == Len(id) = 12 /\ \A i \in 1..Len(id) : id[i] \in Digits
ThreeLettersSevenDigits(id) ==
    /\ Len(id) = 10
    /\ \A i \in 1..3 : id[i] \in Uppers
    /\ \A i \in 4..10 : id[i] \in Digits
WellFormedId(id, idType) ==
    /\ idType = "aadhaar" => TwelveDigits(id)
    /\ idType = "voterId" => ThreeLettersSevenDigits(id)

\* C8: verifyVoterId with an Aadhaar number that is not exactly 12 digits, or
\* a voter id that is not 3 uppercase letters followed by 7 digits, returns
\* false without a write to the profile store; with a well-formed id and an
\* authenticated session it sends the write, and when the write succeeds it
\* returns true.
C8_VerifyVoterIdFormat ==
    [][/\ \A id \in IdInputs, idType \in IdTypes :
             verifyVoterId(id, idType) =>
                 IF ~WellFormedId(id, idType)
                 THEN /\ RetIs(ret', "verifyVoterId", FALSE)
                      /\ sent' = {} /\ ops' = ops /\ profiles' = profiles
                 ELSE supabaseUser # None =>
                         /\ ret' = None
                         /\ \E r \in sent' : r.kind = "profiles.update"
       /\ \A a \in BagToSet(ops) :
             verifyVoterId_response(a, TRUE) =>
                 /\ WellFormedId(a.id, a.idType)
                 /\ RetIs(ret', "verifyVoterId", TRUE)]_vars

C8_Witness ==
    /\ RetIs(ret, "verifyVoterId", TRUE)
    /\ profiles["v1"].voter_id = Some(<<"A","B","C","1","2","3","4","5","6","7">>)
    /\ session # None

HasAdminMarker(u) ==
    u # None /\ \E f \in DOMAIN Get(u) : f = "role" /\ Get(u)[f] = "admin"

\* C9: in every reachable state the user is an Administrator exactly when it
\* carries the role marker "admin", a Voter exactly when it is non-null
\* without that marker, and null is neither.
C9_RoleDerivation ==
    /\ isAdmin(user) <=> HasAdminMarker(user)
    /\ isVoter(user) <=> (user # None /\ ~HasAdminMarker(user))
    /\ user # None => (isAdmin(user) <=> ~isVoter(user))
    /\ user = None => ~isAdmin(user) /\ ~isVoter(user)

C9_Witness ==
    /\ user = Some(AdminUser)
    /\ isAdmin(user) /\ ~isVoter(user)
    /\ session # None

\* C10 as stated: once logout has completed, and until a verifyOtp or an
\* adminLogin succeeds, the provider holds no session and the user is null.
C10_UserNullAfterLogout ==
    hist.loggedOut =>
        /\ providerSession = None /\ session = None
        /\ user = None

VotedSuccessfully(v) ==
    \E c \in CallIds : Returned(c) /\ calls[c].voterId = v /\ calls[c].ret

\* The dashboard is shown to voter v with its data loaded: no render is
\* pending and no loadData of the mounted component awaits an answer.
DashboardLoadedFor(v) ==
    /\ DashboardShown /\ Settled
    /\ supabaseUser = Some([id |-> v])
    /\ \A a \in BagToSet(ops) : a.op = "loadData" => ~a.live

CurrentVoter(userId) ==
    VoterOf(Get(CHOOSE p \in getUserProfile(userId) \ {None} : TRUE))

\* C11 as stated: hydrations racing for one user id converge on the Voter
\* built from the current profile record: once the user equals that Voter, a
\* hydration that completes with a profile leaves it so, in whatever order
\* the fetches complete.
C11_HydrationConverges ==
    [][\A a \in BagToSet(ops) :
          /\ fetchUserProfile_response(a)
          /\ a.profile # None
          /\ user = Some(CurrentVoter(a.userId))
          => user' = user]_vars

\* The operation showed the user a notification.
Notified(r) == r.toast # "none"

\* The step returns from operation op.
ReturnsFrom(op) == ret' # None /\ Get(ret').op = op

\* C12 as stated: every operation of the record access layer whose store
\* request fails returns false, null or an empty collection and shows the user
\* a notification; checkVoteStatus returns false on any failure.
C12_FailuresCaughtAndNotified ==
    [][/\ ReturnsFrom("getConstituencies") /\ getConstituencies_call("error")
          => Get(ret').val = {} /\ Notified(Get(ret'))
       /\ \A name \in NameInputs :
             ReturnsFrom("getConstituencyByName") /\ getConstituencyByName_call(name, "error")
          => Get(ret').val = None /\ Notified(Get(ret'))
       /\ \A k \in ConstituencyInputs :
             ReturnsFrom("getCandidatesByConstituency")
                /\ getCandidatesByConstituency_call(k, "error")
          => Get(ret').val = {} /\ Notified(Get(ret'))
       /\ \A v \in VoterInputs :
             ReturnsFrom("checkVoteStatus") /\ checkVoteStatus_call(v, "error")
          => Get(ret').val = FALSE /\ Notified(Get(ret'))
       /\ \A v \in VoterInputs :
             ReturnsFrom("getUserProfile") /\ getUserProfile_call(v, "error")
          => Get(ret').val = None /\ Notified(Get(ret'))
       /\ \A v \in VoterInputs, u \in UpdatesInputs :
             ReturnsFrom("updateUserProfile") /\ updateUserProfile_call(v, u, "error")
          => Get(ret').val = FALSE /\ Notified(Get(ret'))
       /\ \A c \in CallIds :
             castVote_await(c) /\ calls'[c].pc = "done" /\ calls'[c].error # "none"
          => calls'[c].ret = FALSE /\ calls'[c].toast # "none"]_vars

\* C13: hydrating from a profile record completes and sets the user to a
\* Voter; a null joined constituency, name or phone becomes the empty string
\* and a null aadhaar_number or voter_id an absent field.
C13_NullColumnsHydrate ==
    [][\A a \in BagToSet(ops) :
          fetchUserProfile_response(a) /\ a.profile # None =>
              LET p == Get(a.profile)
              IN /\ user' # None
                 /\ isVoter(user')
                 /\ Get(user').id = p.id
                 /\ p.constituencies = None => Get(user').constituency = ""
                 /\ p.name = None => Get(user').name = ""
                 /\ p.phone = None => Get(user').phone = ""
                 /\ p.aadhaar_number = None => Get(user').aadhaarNumber = None
                 /\ p.voter_id = None => Get(user').voterId = None]_vars

\* The user was hydrated from a record all of whose nullable columns are null.
C13_Witness ==
    /\ supabaseUser # None
    /\ profiles[Get(supabaseUser).id].constituency_id = None
    /\ profiles[Get(supabaseUser).id].name = None
    /\ user # None
    /\ Get(user).constituency = "" /\ Get(user).name = "" /\ Get(user).phone = ""
    /\ Get(user).aadhaarNumber = None /\ Get(user).voterId = None

\* The vote row a castVote call inserts.
RowOf(c) == {r \in votes : r.id = c}

\* C14: castVote queries, then inserts, then updates the flag: the query
\* writes nothing whatever it finds; a failed insert writes nothing and ends
\* the call with false; only the insert adds a row, for the call's voter; the
\* flag is written only by the update step, after the call's row is in votes;
\* and a call that returned true has its row in votes and set the flag.
C14_CastVoteStepOrder ==
    [][\A c \in CallIds :
          castVote_await(c) =>
              /\ calls[c].pc = "select" =>
                     /\ votes' = votes /\ profiles' = profiles
                     /\ VoteRows(calls[c].voterId) # {} =>
                            calls'[c].pc = "done" /\ ~calls'[c].ret
                     /\ calls'[c].pc \in {"done", "insert"}
                     /\ calls'[c].pc = "done" => ~calls'[c].ret
              /\ calls[c].pc = "insert" =>
                     /\ profiles' = profiles
                     /\ calls'[c].pc \in {"done", "update"}
                     /\ calls'[c].pc = "done" => votes' = votes /\ ~calls'[c].ret
                     /\ calls'[c].pc = "update" =>
                            /\ votes' # votes
                            /\ \A r \in votes' \ votes :
                                   r.voter_id = calls[c].voterId /\ r.id = c
              /\ calls[c].pc = "update" =>
                     /\ votes' = votes
                     /\ RowOf(c) # {}
                     /\ calls'[c].pc = "done"
                     /\ calls'[c].ret <=> profiles' # profiles
                     /\ calls'[c].ret => profiles'[calls[c].voterId].has_voted
              /\ calls'[c].ret =>
                     calls[c].pc = "update" /\ RowOf(c) # {}]_vars

\* One call went through the three steps and returned true, another ended at
\* a failed insert with no row of its own.
C14_Witness ==
    \E c \in CallIds, d \in CallIds :
        /\ Returned(c) /\ calls[c].ret
        /\ RowOf(c) # {} /\ profiles[calls[c].voterId].has_voted
        /\ Returned(d) /\ calls[d].error = "request_failed"
        /\ RowOf(d) = {} /\ ~profiles[calls[d].voterId].has_voted

\* verifyOtp has just returned true.
OtpAccepted == RetIs(ret, "verifyOtp", TRUE)
\* The user is the Voter of the authenticated identity.
HydratedVoter ==
    /\ user # None /\ isVoter(user)
    /\ Get(user).id = IdentityOf(<<>>)
\* A fetch of the profile has failed (getUserProfile returned null).
FetchFailed ==
    \E a \in BagToSet(ops) :
        a.op = "fetchUserProfile" /\ a.pc = "response" /\ a.profile = None

\* C15: a verifyOtp the provider accepts returns true, clears pending phone
\* and pending email and leaves an authenticated session with a profile fetch
\* under way; and after it the user eventually becomes the Voter of the
\* authenticated identity, unless a fetch of the profile fails.
C15_AcceptedOtpHydrates ==
    /\ [][\A a \in BagToSet(ops) :
             verifyOtp_response(a, "ok") =>
                 /\ RetIs(ret', "verifyOtp", TRUE)
                 /\ pendingPhone' = None /\ pendingEmail' = None
                 /\ session' # None /\ supabaseUser' # None
                 /\ \E b \in BagToSet(ops') :
                        b.op = "fetchUserProfile"
                        /\ b.userId = Get(supabaseUser').id]_vars
    /\ (OtpAccepted ~> (HydratedVoter \/ FetchFailed))

\* The code has just been accepted while the user is null: the pending state
\* is cleared, a session is held and the profile fetch is under way.
C15_Witness ==
    /\ OtpAccepted
    /\ user = None
    /\ session # None
    /\ pendingPhone = None /\ pendingEmail = None
    /\ \E a \in BagToSet(ops) : a.op = "fetchUserProfile" /\ a.pc = "request"

\* The Voter field verifyVoterId sets for an id type.
FieldOf(idType) == IF idType = "aadhaar" THEN "aadhaarNumber" ELSE "voterId"

\* C16 as stated: verifyVoterId with a well-formed id sends the write only
\* when a session exists, else returns false and writes nothing; when the
\* write succeeds the in-memory Voter gets the id in the corresponding field
\* and keeps every other field at its current value, whatever completed while
\* the write was in flight; when the write fails the Voter is unchanged.
C16_VerifyVoterIdFrame ==
    [][/\ \A id \in IdInputs, idType \in IdTypes :
             verifyVoterId(id, idType) /\ WellFormedId(id, idType) =>
                 /\ user' = user /\ profiles' = profiles
                 /\ supabaseUser = None =>
                        RetIs(ret', "verifyVoterId", FALSE) /\ sent' = {}
       /\ \A a \in BagToSet(ops) :
             /\ verifyVoterId_response(a, TRUE) =>
                    /\ profiles'[a.userId][IF a.idType = "aadhaar" THEN "aadhaar_number"
                                           ELSE "voter_id"] = Some(a.id)
                    /\ isVoter(user) =>
                           user' = Some([Get(user) EXCEPT ![FieldOf(a.idType)] = Some(a.id)])
                    /\ ~isVoter(user) => user' = user
             /\ verifyVoterId_response(a, FALSE) =>
                    user' = user /\ profiles' = profiles]_vars

\* A step in which loginWithEmail returned val to the login page.
SendReturned(val) == ReturnsFrom("loginWithEmail") /\ Get(ret').val = val

\* A request that asks the provider to issue an OTP leaves in this step.
OtpRequested == \E r \in sent' : r.kind = "signInWithOtp"

\* C17: after a successful OTP send the resend countdown is 30 and resend is
\* disabled; while resend is disabled handleResendOtp returns at once and no
\* OTP request leaves the OTP form; the countdown moves only by one down per
\* tick or back to 30, and stays within 0..30; a failed send and a resend that
\* did not succeed leave the cooldown as it was; and a cooldown that has
\* reached 0 leads to resend being enabled again.
C17_ResendCooldown ==
    /\ [][ /\ SendReturned(TRUE) /\ VoterLoginMounted =>
                /\ flow'.resendCountdown = ResendCooldown
                /\ flow'.resendDisabled
           /\ flow.resendDisabled /\ handleResendOtp => sent' = {} /\ ret' = None
           /\ VoterLoginMounted /\ flow.otpSent /\ flow.resendDisabled => ~OtpRequested
           /\ VoterLogin_tick => flow'.resendCountdown = flow.resendCountdown - 1
           /\ flow'.resendCountdown # flow.resendCountdown =>
                \/ flow'.resendCountdown = flow.resendCountdown - 1
                \/ SendReturned(TRUE) /\ flow'.resendCountdown = ResendCooldown
           /\ SendReturned(FALSE) \/ handleResendOtp =>
                /\ flow'.resendCountdown = flow.resendCountdown
                /\ flow'.resendDisabled = flow.resendDisabled
         ]_vars
    /\ [](flow.resendCountdown \in 0..ResendCooldown)
    /\ (VoterLoginMounted /\ flow.resendDisabled /\ flow.resendCountdown = 0)
         ~> ~flow.resendDisabled

\* The OTP was sent, the cooldown has run from 30 down to 0 and resend is
\* enabled again.
C17_Witness ==
    /\ VoterLoginMounted
    /\ flow.otpSent
    /\ otpIssued # {}
    /\ flow.resendCountdown = 0
    /\ ~flow.resendDisabled

\* C18 as stated: resendOtp(), as the login page invokes it from an enabled
\* resend button, sends the provider a request that re-issues an OTP to the
\* pending identifier, and nothing is thrown.
C18_ResendOtpReissues ==
    [][ ~flow.resendDisabled /\ handleResendOtp =>
            /\ flow'.rejection = "none"
            /\ \E r \in sent' : r.kind = "signInWithOtp" /\ Some(r.to) = pendingEmail
      ]_vars

\* A step in which verifyOtp returned val to the login page.
VerifyReturned(val) == ReturnsFrom("verifyOtp") /\ Get(ret').val = val

\* The step of the flow the login page is in.
FlowStep(f) == <<f.route, f.otpSent>>

\* C19: the OTP-entry step comes up only in a step where loginWithEmail
\* returned true, the page navigates to /verify-id only in a step where
\* verifyOtp returned true, and a loginWithEmail or verifyOtp that returned
\* false leaves the flow in the step it was in.
C19_LoginFlowOrder ==
    [][ /\ ~flow.otpSent /\ flow'.otpSent => SendReturned(TRUE)
        /\ flow.route = "/login" /\ flow'.route # "/login" =>
             VerifyReturned(TRUE) /\ flow'.route = "/verify-id"
        /\ SendReturned(FALSE) \/ VerifyReturned(FALSE) => FlowStep(flow') = FlowStep(flow)
      ]_vars

\* The page has gone through both steps: the OTP was issued, the provider
\* accepted it and the page has navigated.
C19_Witness ==
    /\ flow.route = "/verify-id"
    /\ flow.otpSent
    /\ providerSession # None
    /\ RetIs(ret, "verifyOtp", TRUE)

\* A pending identifier there is to clear is cleared in this step.
PendingCleared ==
    \/ pendingPhone # None /\ pendingPhone' = None
    \/ pendingEmail # None /\ pendingEmail' = None

\* C20: the step of login / loginWithEmail that sends the OTP request has
\* already set the pending identifier, the provider's answer still awaited; a
\* pending identifier is cleared only in a step where verifyOtp returned true;
\* and a verifyOtp called while an identifier is pending is submitted to the
\* provider, whatever rejection, failed verification, adminLogin or logout
\* came before.
C20_PendingIdentifier ==
    [][ /\ \A r \in sent' : r.kind = "signInWithOtp" =>
              /\ Some(r.to) \in {pendingPhone', pendingEmail'}
              /\ \E a \in BagToSet(ops') : a.op \in {"login", "loginWithEmail"}
              /\ ret' = None
        /\ PendingCleared => ReturnsFrom("verifyOtp") /\ Get(ret').val = TRUE
        /\ \A otp \in OtpInputs :
              (pendingPhone # None \/ pendingEmail # None) /\ verifyOtp(otp) =>
                  \E r \in sent' : /\ r.kind = "verifyOtp"
                                   /\ r.phone = pendingPhone
                                   /\ r.email = pendingEmail
      ]_vars

\* After a logout has completed an identifier is still pending and a verifyOtp
\* has just been submitted with it.
C20_Witness ==
    /\ hist.loggedOut
    /\ pendingPhone # None \/ pendingEmail # None
    /\ \E r \in sent : r.kind = "verifyOtp"

\* A castVote call is made in this step.
CastVoteInvoked(c) == calls[c].pc = "idle" /\ calls'[c].pc # "idle"

\* C21: a step in which the dashboard issues a castVote request is taken with
\* a Voter as user, a selected candidate, a provider user and a loaded
\* constituency; the request carries the provider user's id, the selected
\* candidate and the loaded constituency's id, and so does the castVote call
\* it starts.  With a null user or an Administrator no castVote is issued.
C21_HandleVoteGuards ==
    [][ /\ \A r \in sent' : r.kind = "castVote" =>
              /\ isVoter(user)
              /\ supabaseUser # None
              /\ dash # None
              /\ Get(dash).selectedCandidate # None
              /\ Get(dash).constituency # None
              /\ r.voterId = Get(supabaseUser).id
              /\ r.candidateId = Get(Get(dash).selectedCandidate)
              /\ r.constituencyId = Get(Get(dash).constituency).id
        /\ \A c \in CallIds : CastVoteInvoked(c) =>
              \E r \in sent' : /\ r.kind = "castVote"
                               /\ calls'[c].voterId = r.voterId
                               /\ calls'[c].candidateId = r.candidateId
                               /\ calls'[c].constituencyId = r.constituencyId
        /\ user = None \/ isAdmin(user) =>
              /\ \A r \in sent' : r.kind # "castVote"
              /\ \A c \in CallIds : ~CastVoteInvoked(c)
      ]_vars

\* handleVote has just issued its castVote request for the signed-in voter.
C21_Witness ==
    /\ isVoter(user)
    /\ supabaseUser # None
    /\ \E r \in sent : r.kind = "castVote" /\ r.voterId = Get(supabaseUser).id
    /\ \E a \in BagToSet(ops) : a.op = "handleVote" /\ calls[a.call].pc = "select"

\* ---------------------------------------------------------- specification
InitStore ==
    /\ votes = {}
    /\ profiles = [v \in Voters |-> ProfileRow(v, Some("Asha"), Some("+91"), Some("k1"))]

InitCalls == calls = [c \in CallIds |-> IdleCall]

\* AuthProvider after its first render and effect: no user, the session
\* subscription set up and getSession() awaiting its answer.
InitAuth ==
    /\ providerSession \in {None, Some(SessionOf("v1"))}
    /\ otpIssued = {}
    /\ user = None
    /\ userOid = 0
    /\ supabaseUser = None
    /\ session = None
    /\ pendingPhone = None
    /\ pendingEmail = None
    /\ ops = SetToBag({[op |-> "getSession"]})
    /\ ret = None
    /\ sent = {}
    /\ hist = [loginCalled |-> FALSE, loggedOut |-> FALSE]

InitDash == dash = None

InitFlow == flow = VoterLogin_useState

Init == InitStore /\ InitCalls /\ InitAuth /\ InitDash /\ InitFlow

\* The session layer over the provider and the profiles table.
Next ==
    \/ \E a \in BagToSet(ops) : getSession_then(a)
    \/ onAuthStateChange
    \/ \E a \in BagToSet(ops) : fetchUserProfile_request(a)
    \/ \E a \in BagToSet(ops) : fetchUserProfile_response(a)
    \/ \E phone \in PhoneInputs : login(phone)
    \/ \E a \in BagToSet(ops), ans \in ProviderAnswers : login_response(a, ans)
    \/ \E email \in EmailInputs : loginWithEmail(email) /\ UNCHANGED flow
    \/ \E a \in BagToSet(ops), ans \in ProviderAnswers : loginWithEmail_response(a, ans) /\ UNCHANGED flow
    \/ \E otp \in OtpInputs : verifyOtp(otp) /\ UNCHANGED flow
    \/ \E a \in BagToSet(ops), ans \in ProviderAnswers : verifyOtp_response(a, ans) /\ UNCHANGED flow
    \/ \E username \in UsernameInputs, password \in PasswordInputs : adminLogin(username, password)
    \/ logout
    \/ \E a \in BagToSet(ops), ans \in ProviderAnswers : logout_response(a, ans)

Spec == Init /\ [][Next]_vars

\* Identity verification while the session found at start-up is restored and
\* the user hydrated from it.
NextVerifyId ==
    \/ \E a \in BagToSet(ops) : getSession_then(a)
    \/ \E a \in BagToSet(ops) : fetchUserProfile_request(a)
    \/ \E a \in BagToSet(ops) : fetchUserProfile_response(a)
    \/ \E id \in IdInputs, idType \in IdTypes : verifyVoterId(id, idType)
    \/ \E a \in BagToSet(ops), success \in BOOLEAN : verifyVoterId_response(a, success)

SpecVerifyId == Init /\ [][NextVerifyId]_vars

\* The record access layer's castVote, invoked by any callers.
NextVote ==
    \/ \E c \in CallIds, v \in Voters, cand \in CandidateInputs, k \in ConstituencyInputs :
          castVote(c, v, cand, k)
    \/ \E c \in CallIds : castVote_await(c)

SpecVote == Init /\ [][NextVote]_vars

\* The voter dashboard over the session layer and the store: a re-render
\* (redirect, effect) comes before any further event.
NextDash ==
    \/ RenderPending /\ VoterDashboard_render
    \/ Settled /\ \E a \in BagToSet(ops) : getSession_then(a)
    \/ Settled /\ onAuthStateChange
    \/ Settled /\ \E a \in BagToSet(ops) : fetchUserProfile_request(a)
    \/ Settled /\ \E a \in BagToSet(ops) : fetchUserProfile_response(a)
    \/ Settled /\ VoterDashboard_mount
    \/ Settled /\ \E a \in BagToSet(ops) : loadData_checkVoteStatus_request(a)
    \/ Settled /\ \E a \in BagToSet(ops) : loadData_checkVoteStatus_response(a)
    \/ Settled /\ \E a \in BagToSet(ops) : loadData_getConstituencyByName(a)
    \/ Settled /\ \E a \in BagToSet(ops) : loadData_getCandidatesByConstituency(a)
    \/ Settled /\ \E candidate \in Candidates : selectCandidate(candidate)
    \/ Settled /\ \E c \in CallIds \cap 1..MaxVotes : handleVote(c)
    \/ Settled /\ \E a \in BagToSet(ops) : handleVote_await(a)

SpecDash == Init /\ [][NextDash]_vars

\* Hydration of the user at start-up (the one-time session query and the
\* subscription callback), over profile rows with and without null columns,
\* while the authenticated voter's vote is cast.
InitStoreHydrate ==
    /\ votes = {}
    /\ profiles \in { [v \in Voters |->
                         IF v = IdentityOf(<<>>) THEN p
                         ELSE ProfileRow(v, Some("Asha"), Some("+91"), Some("k1"))] :
                      p \in ProfileInputs(IdentityOf(<<>>)) }

InitHydrate == InitStoreHydrate /\ InitCalls /\ InitAuth /\ InitDash /\ InitFlow

NextHydrate ==
    \/ \E a \in BagToSet(ops) : getSession_then(a)
    \/ onAuthStateChange
    \/ \E a \in BagToSet(ops) : fetchUserProfile_request(a)
    \/ \E a \in BagToSet(ops) : fetchUserProfile_response(a)
    \/ \E c \in CallIds \cap 1..MaxVotes, cand \in Candidates, k \in ConstituencyInputs :
          supabaseUser # None /\ castVote(c, Get(supabaseUser).id, cand, k)
    \/ \E c \in CallIds : castVote_await(c)

SpecHydrate == InitHydrate /\ [][NextHydrate]_vars

\* The record access layer, each operation invoked by any caller with the
\* store answering or failing.
NextAccess ==
    \/ \E ans \in StoreAnswers : getConstituencies_call(ans)
    \/ \E name \in NameInputs, ans \in StoreAnswers : getConstituencyByName_call(name, ans)
    \/ \E k \in ConstituencyInputs, ans \in StoreAnswers :
          getCandidatesByConstituency_call(k, ans)
    \/ \E v \in VoterInputs, ans \in StoreAnswers : checkVoteStatus_call(v, ans)
    \/ \E v \in VoterInputs, ans \in StoreAnswers : getUserProfile_call(v, ans)
    \/ \E v \in VoterInputs, u \in UpdatesInputs, ans \in StoreAnswers :
          updateUserProfile_call(v, u, ans)
    \/ \E c \in CallIds \cap 1..MaxVotes, v \in Voters, cand \in CandidateInputs,
          k \in ConstituencyInputs : castVote(c, v, cand, k)
    \/ \E c \in CallIds : castVote_await(c)

SpecAccess == Init /\ [][NextAccess]_vars

\* Sign-in by one-time code and sign-out.  A fetch of the profile in flight
\* is answered by the store, and the continuation of fetchUserProfile runs
\* once its await has resolved.
NextOtp ==
    \/ \E a \in BagToSet(ops) : getSession_then(a)
    \/ \E a \in BagToSet(ops) : fetchUserProfile_request(a)
    \/ \E a \in BagToSet(ops) : fetchUserProfile_response(a)
    \/ \E phone \in PhoneInputs : login(phone)
    \/ \E a \in BagToSet(ops), ans \in ProviderAnswers : login_response(a, ans)
    \/ \E email \in EmailInputs : loginWithEmail(email) /\ UNCHANGED flow
    \/ \E a \in BagToSet(ops), ans \in ProviderAnswers : loginWithEmail_response(a, ans) /\ UNCHANGED flow
    \/ \E otp \in OtpInputs : verifyOtp(otp) /\ UNCHANGED flow
    \/ \E a \in BagToSet(ops), ans \in ProviderAnswers : verifyOtp_response(a, ans) /\ UNCHANGED flow
    \/ logout
    \/ \E a \in BagToSet(ops), ans \in ProviderAnswers : logout_response(a, ans)

SpecOtp ==
    /\ Init /\ [][NextOtp]_vars
    /\ WF_vars(\E a \in BagToSet(ops) : fetchUserProfile_request(a))
    /\ WF_vars(\E a \in BagToSet(ops) : fetchUserProfile_response(a))

\* The login page over the session layer.  The countdown effect runs right
\* after the render that leaves it work, before any further event; timers and
\* effects are not starved.
NextLogin ==
    \/ ResendEffectPending /\ VoterLogin_effect
    \/ /\ ~ResendEffectPending
       /\ \/ \E a \in BagToSet(ops) : getSession_then(a)
          \/ \E a \in BagToSet(ops) : fetchUserProfile_request(a)
          \/ \E a \in BagToSet(ops) : fetchUserProfile_response(a)
          \/ VoterLogin_tick
          \/ \E email \in EmailInputs : handleSendOtp(email)
          \/ \E a \in BagToSet(ops), ans \in ProviderAnswers : handleSendOtp_await(a, ans)
          \/ \E otp \in OtpInputs : handleVerifyOtp(otp)
          \/ \E a \in BagToSet(ops), ans \in ProviderAnswers : handleVerifyOtp_await(a, ans)
          \/ handleResendOtp
          \/ changeEmail

SpecLogin ==
    /\ Init
    /\ [][NextLogin]_vars
    /\ WF_vars(VoterLogin_effect)
    /\ WF_vars(VoterLogin_tick)

\* The voter dashboard over a restored session, with an administrator sign-in
\* and a logout possible at any settled moment.
NextHandleVote ==
    \/ RenderPending /\ VoterDashboard_render
    \/ Settled /\ \E a \in BagToSet(ops) : getSession_then(a)
    \/ Settled /\ \E a \in BagToSet(ops) : fetchUserProfile_request(a)
    \/ Settled /\ \E a \in BagToSet(ops) : fetchUserProfile_response(a)
    \/ Settled /\ VoterDashboard_mount
    \/ Settled /\ \E a \in BagToSet(ops) : loadData_checkVoteStatus_request(a)
    \/ Settled /\ \E a \in BagToSet(ops) : loadData_checkVoteStatus_response(a)
    \/ Settled /\ \E a \in BagToSet(ops) : loadData_getConstituencyByName(a)
    \/ Settled /\ \E a \in BagToSet(ops) : loadData_getCandidatesByConstituency(a)
    \/ Settled /\ \E candidate \in Candidates : selectCandidate(candidate)
    \/ Settled /\ \E c \in CallIds \cap 1..MaxVotes : handleVote(c)
    \/ Settled /\ \E a \in BagToSet(ops) : handleVote_await(a)
    \/ Settled /\ \E username \in UsernameInputs, password \in PasswordInputs :
                      adminLogin(username, password)
    \/ Settled /\ logout
    \/ Settled /\ \E a \in BagToSet(ops), ans \in ProviderAnswers : logout_response(a, ans)

SpecHandleVote == Init /\ [][NextHandleVote]_vars

====
